---- MODULE Spec2Model ----
(***************************************************************************)
(* A model of the ovirtcli shell: the root node with its connection        *)
(* handle (ui_root.py), the Datacenters and Hosts collections with their   *)
(* entries (ui_ovirtcli.py) and the remote engine they talk to.            *)
(*                                                                         *)
(* Every shell command is one action: configshell runs one command at a    *)
(* time and a command returns (or raises) before the next one starts.      *)
(* The record `last` is the observable trace of the last command: the      *)
(* remote calls it issued, the messages it logged, the refresh() calls it  *)
(* made and the exception that left it, if any.                            *)
(***************************************************************************)
EXTENDS Integers, Sequences, FiniteSets

VARIABLES api,            \* UIRoot._api: None or the connection handle
          ip,             \* UIRoot._ip: None or the recorded engine address
          rootChildren,   \* UIRoot._children: names of the category nodes
          hostsChildren,  \* UIHosts._children: host name -> status snapshot
          dcsChildren,    \* UIData_centers._children: data center names
          rHosts,         \* the engine's hosts: name -> status, or Absent
          rDcs,           \* the engine's data centers
          last,           \* trace of the last command
          invChildren,    \* _children of Clusters, Storagedomains, Templates, VMs
          rInv,           \* the engine's clusters, storage domains, templates, VMs
          backups,        \* the backup directory: timestamps of saveconfig-*.json
          now,            \* the clock saveconfig reads
          proc            \* cli.py main: where it is, and what it has done

vars == <<api, ip, rootChildren, hostsChildren, dcsChildren, rHosts, rDcs, last,
          invChildren, rInv, backups, now, proc>>

----------------------------------------------------------------------------
(* Bounds and value sets *)

MaxPolls == 3   \* longest remote status script offered to a host create

None == "None"
Absent == "absent"
NotFound == "not found"

Addrs == {"engine1", "engine2"}
HostNames == {"h1"}
DcNames == {"dc1"}

UP == "UP"
MAINTENANCE == "MAINTENANCE"
NonOperational == "NonOperational"
INSTALLING == "installing"
HostStatus == {UP, MAINTENANCE, NonOperational, INSTALLING}

NoHosts == [n \in HostNames |-> Absent]

\* The order in which UIRoot.refresh constructs the category nodes.
CatOrder == <<"Datacenters", "Clusters", "Hosts", "Storagedomains", "Templates", "VMs">>

\* The categories other than Datacenters and Hosts, and their element names.
OtherCats == {"Clusters", "Storagedomains", "Templates", "VMs"}
ItemNames == {"x1"}
NoItems == [c \in OtherCats |-> {}]
AllCats == {"Datacenters", "Hosts"} \cup OtherCats
CatIndex(c) == CHOOSE i \in 1..Len(CatOrder) : CatOrder[i] = c

\* Remote status scripts: what successive host_service.get() calls would
\* return after an accepted add.
Repeat(s, k) == [i \in 1..k |-> s]
ScriptUp(k) == Repeat(INSTALLING, k - 1) \o <<UP>>
ScriptNonOp(k) == Repeat(INSTALLING, k - 1) \o <<NonOperational>>
ScriptNever(k) == Repeat(INSTALLING, k)
PollScripts ==
    {ScriptNever(MaxPolls)} \cup UNION {{ScriptUp(k), ScriptNonOp(k)} : k \in 1..MaxPolls}

----------------------------------------------------------------------------
(* The trace of a command *)

Trace(op, arg) ==
    [op |-> op, arg |-> arg, script |-> <<>>, seen |-> None, polls |-> 0,
     exit |-> None, calls |-> <<>>, log |-> <<>>, refreshes |-> <<>>, exc |-> None,
     listed |-> {}, count |-> 0, up |-> 0]

Has(seq, x) == \E i \in 1..Len(seq) : seq[i] = x
Count(seq, x) == Cardinality({i \in 1..Len(seq) : seq[i] = x})

\* What the list call of a category's service returns now: one element per
\* remote object, its name and (for a host) its status.
RemoteList(cat) ==
    CASE cat = "Datacenters" -> {<<d, None>> : d \in rDcs}
      [] cat = "Hosts" ->
            {<<n, rHosts[n]>> : n \in {m \in HostNames : rHosts[m] # Absent}}
      [] OTHER -> {<<x, None>> : x \in rInv[cat]}

\* The entries under a collection node, in the same form.
ChildrenOf(cat) ==
    CASE cat = "Datacenters" -> {<<d, None>> : d \in dcsChildren}
      [] cat = "Hosts" ->
            {<<n, hostsChildren[n]>> :
                n \in {m \in HostNames : hostsChildren[m] # Absent}}
      [] OTHER -> {<<x, None>> : x \in invChildren[cat]}

----------------------------------------------------------------------------
(* UIRoot *)

\* sdk.Connection(url='https://%s/ovirt-engine/api' % ip, ...): a handle is
\* identified by the engine address it was built for.
Connection(addr) == addr

\* UINode.is_connected
is_connected == api # None

\* Faulty variants of RootCategories: no session check; VMs forgotten.
RootCategoriesUnchecked(handle) == CatOrder
RootCategoriesShort(handle) ==
    IF handle # None THEN SubSeq(CatOrder, 1, Len(CatOrder) - 1) ELSE <<>>

\* UIRoot.refresh: the categories constructed for a handle.
RootCategories(handle) == IF handle # None THEN CatOrder ELSE <<>>

\* The i-th category constructor ran (the node added itself to the root)
\* when no list call failed before it; failAt = 0 means no list call fails.
Built(handle, failAt) ==
    {i \in 1..Len(RootCategories(handle)) : failAt = 0 \/ i <= failAt}
Listed(handle, failAt) ==
    {i \in 1..Len(RootCategories(handle)) : failAt = 0 \/ i < failAt}

RootRefreshCalls(handle, failAt) ==
    [i \in 1..Cardinality(Built(handle, failAt)) |-> "list"]
RootRefreshExc(handle, failAt) ==
    IF Built(handle, failAt) # Listed(handle, failAt) THEN "Error" ELSE None

\* UIClusters, UIStorage_domains and UITemplates build one entry per listed
\* element; in UIVMs.refresh that loop is commented out.
BuildsEntries(cat) == cat # "VMs"

\* refresh of UIClusters, UIStorage_domains, UITemplates, UIVMs: clear the
\* children, list, then the entries.
OtherRefresh(cat, remote, listFails) ==
    IF listFails \/ ~BuildsEntries(cat) THEN {} ELSE remote

\* UIRoot.refresh: wipe the children, then one collection per category.
\* A collection's constructor registers the node with the root and then
\* refreshes it, which lists the remote inventory.
RootRefresh(handle, failAt) ==
    /\ rootChildren' = {RootCategories(handle)[i] : i \in Built(handle, failAt)}
    /\ dcsChildren' = IF 1 \in Listed(handle, failAt) THEN rDcs ELSE {}
    /\ hostsChildren' = IF 3 \in Listed(handle, failAt) THEN rHosts ELSE NoHosts
    /\ invChildren' = [c \in OtherCats |->
                         IF CatIndex(c) \in Listed(handle, failAt)
                         THEN OtherRefresh(c, rInv[c], FALSE) ELSE {}]

FailPoints == 0..Len(CatOrder)

ConnectTrace(addr, testOk, failAt) ==
    LET handle == Connection(addr)
        t0 == Trace("connect", addr)
        already == IF api # None
                   THEN <<"Already connected. Disconnect first">> ELSE <<>>
    IN  IF testOk
        THEN [t0 EXCEPT
               !.seen = "ok",
               !.calls = <<"Connection", "test">> \o RootRefreshCalls(handle, failAt),
               !.log = already \o <<"Connecting", "Connected to oVirt Engine.">>,
               !.refreshes = <<"/">>,
               !.exc = RootRefreshExc(handle, failAt)]
        ELSE [t0 EXCEPT
               !.seen = "failed",
               !.calls = <<"Connection", "test">>,
               !.log = already \o <<"Connecting",
                                    "Failed to test connection to oVirt Engine.">>]

\* Faulty variant of HandleAfterTest: the handle dropped on a failed test.
HandleDroppedOnFailedTest(handle, testOk) == IF testOk THEN handle ELSE None

\* The handle kept after the connection test.
HandleAfterTest(handle, testOk) == handle

ui_command_connect(addr, testOk, failAt) ==
    /\ testOk \/ failAt = 0
    /\ api' = HandleAfterTest(Connection(addr), testOk)
    /\ IF testOk
       THEN /\ ip' = addr
            /\ RootRefresh(Connection(addr), failAt)
       ELSE UNCHANGED <<ip, rootChildren, hostsChildren, dcsChildren, invChildren>>
    /\ last' = ConnectTrace(addr, testOk, failAt)
    /\ UNCHANGED <<rHosts, rDcs, rInv, backups, now>>

\* Faulty variant of DisconnectCalls: close() without the None check.
DisconnectAlwaysCloses(handle) == <<"close">>

\* The remote calls of disconnect: close() on the handle, if there is one.
DisconnectCalls(handle) == IF handle # None THEN <<"close">> ELSE <<>>

ui_command_disconnect ==
    /\ api' = None
    /\ ip' = IF api # None THEN None ELSE ip
    /\ RootRefresh(None, 0)
    /\ last' = [Trace("disconnect", "") EXCEPT
                 !.calls = DisconnectCalls(api),
                 !.log = IF api # None
                         THEN <<"Disconnected from oVirt Engine.">>
                         ELSE <<"Already disconnected from oVirt Engine.">>,
                 !.refreshes = <<"/">>]
    /\ UNCHANGED <<rHosts, rDcs, rInv, backups, now>>

\* UINode.ui_command_refresh on the root node.
UIRoot_ui_command_refresh(failAt) ==
    /\ api = None => failAt = 0
    /\ RootRefresh(api, failAt)
    /\ last' = [Trace("refresh", "/") EXCEPT
                 !.calls = RootRefreshCalls(api, failAt),
                 !.refreshes = <<"/">>,
                 !.exc = RootRefreshExc(api, failAt)]
    /\ UNCHANGED <<api, ip, rHosts, rDcs, rInv, backups, now>>

\* ui_root.py: the save file, the number of backups kept, and the names
\* the module binds (its imports and its two settings).
default_save_file == "~/ovirtlcli.json"
kept_backups == 10
ModuleGlobals ==
    {"os", "shutil", "stat", "datetime", "glob", "sdk", "ExecutionError",
     "complete_path", "UINode", "UIData_centers", "UIClusters",
     "UIStorage_domains", "UITemplates", "UIVMs", "UIHosts",
     "default_save_file", "kept_backups"}

\* The save files a user names, and the clock's last tick.
SavePaths == {default_save_file, "/home/user/ovirtlcli.json", "/tmp/other.json"}
MaxTime == 12

\* os.path.expanduser: a leading ~ becomes the home directory when one is
\* known (HOME, or the password database); any other path is returned as is.
Expanduser(path, homeKnown) ==
    IF path = "~/ovirtlcli.json" /\ homeKnown
    THEN "/home/user/ovirtlcli.json" ELSE path

\* list(reversed(sorted(backups)))[kept_backups:] unlinked: the backups
\* that stay are those with fewer than kept_backups newer ones.
Rotate(bs) ==
    {b \in bs : Cardinality({c \in bs : c > b}) < kept_backups}

\* UIRoot.ui_command_saveconfig. fileExists: the save file is there to be
\* copied (shutil.copy raises IOError otherwise).
ui_command_saveconfig(path, homeKnown, fileExists) ==
    LET savefile == Expanduser(path, homeKnown)
        t0 == Trace("saveconfig", path)
    IN  /\ IF savefile # default_save_file
           THEN /\ last' = [t0 EXCEPT !.log = <<"Configuration saved to">>]
                /\ UNCHANGED backups
           ELSE IF "ignored" \notin ModuleGlobals
           THEN /\ last' = [t0 EXCEPT !.exc = "NameError"]
                /\ UNCHANGED backups
           ELSE /\ backups' = Rotate(IF fileExists THEN backups \cup {now}
                                                  ELSE backups)
                /\ last' = [t0 EXCEPT !.log = <<"Last configs saved in",
                                                "Configuration saved to">>]
        /\ UNCHANGED <<api, ip, rootChildren, hostsChildren, dcsChildren>>
        /\ UNCHANGED <<rHosts, rDcs, invChildren, rInv, now>>

----------------------------------------------------------------------------
(* UIData_centers and UIData_center *)

\* Which remote call of a command fails: none (0), the lookup or the add
\* (1), the mutating call (2), the list of the closing refresh (3).
CallFailPoints == 0..3

\* UIData_centers.refresh: clear the children, list, one entry per element.
DcsRefresh(remote, listFails) == IF listFails THEN {} ELSE remote

\* Faulty variant of DcLookup: the first element taken without the name
\* filter having matched.
DcLookupAnyName(remote, name, lookupFails) == ~lookupFails

\* self._dcs_service.list(search='name=%s' % name)[0] under a bare except.
DcLookup(remote, name, lookupFails) == ~lookupFails /\ name \in remote

UIData_centers_ui_command_create(name, fail) ==
    /\ "Datacenters" \in rootChildren
    /\ LET t0 == [Trace("dcs_create", name) EXCEPT !.calls = <<"add">>]
       IN  IF fail = 1 \/ name \in rDcs
           THEN /\ last' = [t0 EXCEPT !.exc = "Error"]
                /\ UNCHANGED <<rDcs, dcsChildren>>
           ELSE /\ rDcs' = rDcs \cup {name}
                /\ dcsChildren' = DcsRefresh(rDcs', fail = 3)
                /\ last' = [t0 EXCEPT !.calls = @ \o <<"list">>,
                                      !.refreshes = <<"Datacenters">>,
                                      !.exc = IF fail = 3 THEN "Error" ELSE None]
    /\ UNCHANGED <<api, ip, rootChildren, hostsChildren, rHosts>>
    /\ UNCHANGED <<invChildren, rInv, backups, now, proc>>

\* The body of the collection's delete, shared with the entry's delete.
DcsDelete(op, name, fail) ==
    LET t0 == [Trace(op, name) EXCEPT !.calls = <<"list_search">>]
    IN  IF ~DcLookup(rDcs, name, fail = 1)
        THEN /\ last' = [t0 EXCEPT !.seen = NotFound,
                                   !.log = <<"Data center not found. Check spelling">>]
             /\ UNCHANGED <<rDcs, dcsChildren>>
        ELSE IF fail = 2
        THEN /\ last' = [t0 EXCEPT !.calls = @ \o <<"remove">>, !.exc = "Error"]
             /\ UNCHANGED <<rDcs, dcsChildren>>
        ELSE /\ rDcs' = rDcs \ {name}
             /\ dcsChildren' = DcsRefresh(rDcs', fail = 3)
             /\ last' = [t0 EXCEPT !.calls = @ \o <<"remove", "list">>,
                                   !.refreshes = <<"Datacenters">>,
                                   !.exc = IF fail = 3 THEN "Error" ELSE None]

UIData_centers_ui_command_delete(name, fail) ==
    /\ "Datacenters" \in rootChildren
    /\ DcsDelete("dcs_delete", name, fail)
    /\ UNCHANGED <<api, ip, rootChildren, hostsChildren, rHosts>>
    /\ UNCHANGED <<invChildren, rInv, backups, now, proc>>

\* UIData_center.ui_command_delete: the parent's delete with the entry's name.
UIData_center_ui_command_delete(name, fail) ==
    /\ "Datacenters" \in rootChildren
    /\ name \in dcsChildren
    /\ DcsDelete("dc_delete", name, fail)
    /\ UNCHANGED <<api, ip, rootChildren, hostsChildren, rHosts>>
    /\ UNCHANGED <<invChildren, rInv, backups, now, proc>>

\* UINode.ui_command_refresh on the Datacenters node.
UIData_centers_ui_command_refresh(listFails) ==
    /\ "Datacenters" \in rootChildren
    /\ dcsChildren' = DcsRefresh(rDcs, listFails)
    /\ last' = [Trace("refresh", "Datacenters") EXCEPT
                 !.calls = <<"list">>, !.refreshes = <<"Datacenters">>,
                 !.listed = IF listFails THEN {} ELSE RemoteList("Datacenters"),
                 !.exc = IF listFails THEN "Error" ELSE None]
    /\ UNCHANGED <<api, ip, rootChildren, hostsChildren, rHosts, rDcs>>
    /\ UNCHANGED <<invChildren, rInv, backups, now, proc>>

----------------------------------------------------------------------------
(* UIHosts and UIHost *)

\* Faulty variant of HostsRefresh: the children cleared only once the list
\* is there.
HostsRefreshKeepsOnFailure(remote, listFails) ==
    IF listFails THEN hostsChildren ELSE remote

\* UIHosts.refresh: clear the children, list the remote hosts, one UIHost
\* (with the status of that moment) per host returned.
HostsRefresh(remote, listFails) == IF listFails THEN NoHosts ELSE remote

\* Faulty variant of Lookup: the status of the entry in the tree.
LookupSnapshot(remote, name, lookupFails) ==
    IF lookupFails \/ hostsChildren[name] = Absent
    THEN NotFound ELSE hostsChildren[name]

\* self._hosts_service.list(search='name=%s' % name)[0] under a bare except:
\* a failed call and an empty result both end in the except branch.
Lookup(remote, name, lookupFails) ==
    IF lookupFails \/ remote[name] = Absent THEN NotFound ELSE remote[name]

\* Faulty variants of the guards: delete with activate's test; activate
\* with no test.
HostDeleteGuardNotUp(status) == status # UP
HostActivateUnguarded(status) == TRUE

\* Lifecycle guards: TRUE when the command goes on to its remote call.
HostDeleteGuard(status) == status = MAINTENANCE
HostDeactivateGuard(status) == status # MAINTENANCE
HostActivateGuard(status) == status # UP

\* ui_command_create: the names bound in the frame when the loop test is
\* first evaluated (line 276 binds elpased, line 283 makes elapsed a local),
\* and the attributes of the UIHosts instance.
CreateLocals ==
    {"self", "name", "address", "password", "cluster", "description",
     "host", "host_service", "start_time", "timeout", "elpased"}
UIHostsAttrs == {"_hosts_service", "_api", "_ip", "_children", "_parent", "shell"}

PollInterval == 5
Timeout == 15 * 60
Terminal == {UP, NonOperational}

\* The status the k-th poll returns: the script, then its last status.
Polled(script, k) == IF k <= Len(script) THEN script[k] ELSE script[Len(script)]

\* The wait loop of ui_command_create from its k-th test of `not elapsed`
\* on: [exc, polls, seen, exit] when the loop is left.
RECURSIVE WaitLoop(_, _, _, _)
WaitLoop(locals, attrs, script, k) ==
    IF "elapsed" \notin locals
    THEN [exc |-> "UnboundLocalError", polls |-> k - 1, seen |-> None, exit |-> "exception"]
    ELSE IF Polled(script, k) \in Terminal
    THEN [exc |-> None, polls |-> k, seen |-> Polled(script, k), exit |-> "terminal"]
    ELSE IF "start_time" \notin attrs
    THEN [exc |-> "AttributeError", polls |-> k, seen |-> Polled(script, k), exit |-> "exception"]
    ELSE IF k * PollInterval > Timeout
    THEN [exc |-> None, polls |-> k, seen |-> Polled(script, k), exit |-> "deadline"]
    ELSE WaitLoop(locals, attrs, script, k + 1)

\* hosts_service.add: the engine rejects a name it already has.
AddAccepted(name, addFails) == ~addFails /\ rHosts[name] = Absent

\* The status the engine is left with once the command is over.
StatusAfter(w, script) == IF w.polls = 0 THEN INSTALLING ELSE Polled(script, w.polls)

UIHosts_ui_command_create(name, script, fail) ==
    /\ "Hosts" \in rootChildren
    /\ LET w == WaitLoop(CreateLocals, UIHostsAttrs, script, 1)
           t0 == [Trace("hosts_create", name) EXCEPT !.script = script]
           gets == [i \in 1..w.polls |-> "get"]
           addFails == fail = 1
           listFails == fail = 3
       IN  IF ~AddAccepted(name, addFails)
           THEN /\ last' = [t0 EXCEPT !.calls = <<"add">>, !.exc = "Error"]
                /\ UNCHANGED <<rHosts, hostsChildren>>
           ELSE /\ rHosts' = [rHosts EXCEPT ![name] = StatusAfter(w, script)]
                /\ IF w.exc # None
                   THEN /\ last' = [t0 EXCEPT !.calls = <<"add">> \o gets,
                                              !.polls = w.polls, !.seen = w.seen,
                                              !.exit = w.exit, !.exc = w.exc]
                        /\ UNCHANGED hostsChildren
                   ELSE IF w.seen = UP
                   THEN /\ hostsChildren' = HostsRefresh(rHosts', listFails)
                        /\ last' = [t0 EXCEPT !.calls = <<"add">> \o gets \o <<"list">>,
                                              !.polls = w.polls, !.seen = w.seen,
                                              !.exit = w.exit,
                                              !.log = <<"Host was successfully added.">>,
                                              !.refreshes = <<"Hosts">>,
                                              !.exc = IF listFails THEN "Error" ELSE None]
                   ELSE /\ last' = [t0 EXCEPT !.calls = <<"add">> \o gets,
                                              !.polls = w.polls, !.seen = w.seen,
                                              !.exit = w.exit,
                                              !.log = <<"Host was not added properly. Status:", w.seen>>]
                        /\ UNCHANGED hostsChildren
    /\ UNCHANGED <<api, ip, rootChildren, dcsChildren, rDcs>>
    /\ UNCHANGED <<invChildren, rInv, backups, now, proc>>

\* The body shared by the collection's delete and its callers.
HostsDelete(op, name, fail) ==
    LET lookupFails == fail = 1
        callFails == fail = 2
        listFails == fail = 3
        seen == Lookup(rHosts, name, lookupFails)
        t0 == [Trace(op, name) EXCEPT !.seen = seen, !.calls = <<"list_search">>]
    IN  IF seen = NotFound
        THEN /\ last' = [t0 EXCEPT !.log = <<"Host not found. Check spelling.">>]
             /\ UNCHANGED <<rHosts, hostsChildren>>
        ELSE IF ~HostDeleteGuard(seen)
        THEN /\ last' = [t0 EXCEPT !.log = <<"Host is not in Maintenance. Deactivate it first.">>]
             /\ UNCHANGED <<rHosts, hostsChildren>>
        ELSE IF callFails
        THEN /\ last' = [t0 EXCEPT !.calls = @ \o <<"remove">>, !.exc = "Error"]
             /\ UNCHANGED <<rHosts, hostsChildren>>
        ELSE /\ rHosts' = [rHosts EXCEPT ![name] = Absent]
             /\ hostsChildren' = HostsRefresh(rHosts', listFails)
             /\ last' = [t0 EXCEPT !.calls = @ \o <<"remove", "list">>,
                                   !.refreshes = <<"Hosts">>,
                                   !.exc = IF listFails THEN "Error" ELSE None]

\* The body shared by deactivate and activate, on the collection and on an
\* entry: lookup, guard, remote call, refresh.
HostsSwitch(op, name, guard, call, target, fail) ==
    LET lookupFails == fail = 1
        callFails == fail = 2
        listFails == fail = 3
        seen == Lookup(rHosts, name, lookupFails)
        t0 == [Trace(op, name) EXCEPT !.seen = seen, !.calls = <<"list_search">>]
    IN  IF seen = NotFound
        THEN /\ last' = [t0 EXCEPT !.log = <<"Host not found. Check spelling">>]
             /\ UNCHANGED <<rHosts, hostsChildren>>
        ELSE IF ~guard
        THEN /\ last' = t0
             /\ UNCHANGED <<rHosts, hostsChildren>>
        ELSE IF callFails
        THEN /\ last' = [t0 EXCEPT !.calls = @ \o <<call>>, !.exc = "Error"]
             /\ UNCHANGED <<rHosts, hostsChildren>>
        ELSE /\ rHosts' = [rHosts EXCEPT ![name] = target]
             /\ hostsChildren' = HostsRefresh(rHosts', listFails)
             /\ last' = [t0 EXCEPT !.calls = @ \o <<call, "list">>,
                                   !.refreshes = <<"Hosts">>,
                                   !.exc = IF listFails THEN "Error" ELSE None]

UIHosts_ui_command_delete(name, fail) ==
    /\ "Hosts" \in rootChildren
    /\ HostsDelete("hosts_delete", name, fail)
    /\ UNCHANGED <<api, ip, rootChildren, dcsChildren, rDcs>>
    /\ UNCHANGED <<invChildren, rInv, backups, now, proc>>

UIHosts_ui_command_deactivate(name, fail) ==
    /\ "Hosts" \in rootChildren
    /\ HostsSwitch("hosts_deactivate", name,
                   HostDeactivateGuard(Lookup(rHosts, name, fail = 1)),
                   "deactivate", MAINTENANCE, fail)
    /\ UNCHANGED <<api, ip, rootChildren, dcsChildren, rDcs>>
    /\ UNCHANGED <<invChildren, rInv, backups, now, proc>>

UIHosts_ui_command_activate(name, fail) ==
    /\ "Hosts" \in rootChildren
    /\ HostsSwitch("hosts_activate", name,
                   HostActivateGuard(Lookup(rHosts, name, fail = 1)),
                   "activate", UP, fail)
    /\ UNCHANGED <<api, ip, rootChildren, dcsChildren, rDcs>>
    /\ UNCHANGED <<invChildren, rInv, backups, now, proc>>

\* UIHost.ui_command_deactivate / ui_command_activate: the parent's command
\* with the entry's name, then the entry's own refresh (which only clears
\* the entry's children: an entry has none).
UIHost_ui_command_deactivate(name, fail) ==
    /\ "Hosts" \in rootChildren
    /\ hostsChildren[name] # Absent
    /\ HostsSwitch("host_deactivate", name,
                   HostDeactivateGuard(Lookup(rHosts, name, fail = 1)),
                   "deactivate", MAINTENANCE, fail)
    /\ UNCHANGED <<api, ip, rootChildren, dcsChildren, rDcs>>
    /\ UNCHANGED <<invChildren, rInv, backups, now, proc>>

UIHost_ui_command_activate(name, fail) ==
    /\ "Hosts" \in rootChildren
    /\ hostsChildren[name] # Absent
    /\ HostsSwitch("host_activate", name,
                   HostActivateGuard(Lookup(rHosts, name, fail = 1)),
                   "activate", UP, fail)
    /\ UNCHANGED <<api, ip, rootChildren, dcsChildren, rDcs>>
    /\ UNCHANGED <<invChildren, rInv, backups, now, proc>>

\* `delete` typed on a host entry: UIHost defines no ui_command_delete, so
\* the shell finds no such command on the node and raises; nothing is
\* called.
UIHost_ui_command_delete(name) ==
    /\ "Hosts" \in rootChildren
    /\ hostsChildren[name] # Absent
    /\ last' = [Trace("host_delete", name) EXCEPT !.exc = "ExecutionError"]
    /\ UNCHANGED <<api, ip, rootChildren, hostsChildren, dcsChildren, rHosts, rDcs>>
    /\ UNCHANGED <<invChildren, rInv, backups, now, proc>>

\* UINode.ui_command_refresh on the Hosts node.
UIHosts_ui_command_refresh(listFails) ==
    /\ "Hosts" \in rootChildren
    /\ hostsChildren' = HostsRefresh(rHosts, listFails)
    /\ last' = [Trace("refresh", "Hosts") EXCEPT
                 !.calls = <<"list">>, !.refreshes = <<"Hosts">>,
                 !.listed = IF listFails THEN {} ELSE RemoteList("Hosts"),
                 !.exc = IF listFails THEN "Error" ELSE None]
    /\ UNCHANGED <<api, ip, rootChildren, dcsChildren, rHosts, rDcs>>
    /\ UNCHANGED <<invChildren, rInv, backups, now, proc>>

----------------------------------------------------------------------------
(* UIClusters, UIStorage_domains, UITemplates, UIVMs; status of a collection *)

\* UINode.ui_command_refresh on one of these four nodes.
Other_ui_command_refresh(cat, listFails) ==
    /\ cat \in rootChildren
    /\ invChildren' = [invChildren EXCEPT
                          ![cat] = OtherRefresh(cat, rInv[cat], listFails)]
    /\ last' = [Trace("refresh", cat) EXCEPT
                 !.calls = <<"list">>, !.refreshes = <<cat>>,
                 !.listed = IF listFails THEN {} ELSE RemoteList(cat),
                 !.exc = IF listFails THEN "Error" ELSE None]
    /\ UNCHANGED <<api, ip, rootChildren, hostsChildren, dcsChildren>>
    /\ UNCHANGED <<rHosts, rDcs, rInv, backups, now, proc>>

\* summary of a collection: len() of the list it has just fetched.
SummaryCount(cat, fetched) == Cardinality(fetched)

\* Faulty variant of SummaryUp: the status test left out.
SummaryUpAll(cat, fetched) ==
    IF cat = "Hosts" THEN Cardinality(fetched) ELSE 0

\* UIHosts.summary: the fetched hosts whose status is UP.
SummaryUp(cat, fetched) ==
    IF cat = "Hosts" THEN Cardinality({h \in fetched : h[2] = UP}) ELSE 0

\* UINode.ui_command_status on a collection node: summary() lists the
\* service again and the description is logged.
ui_command_status(cat, listFails) ==
    /\ cat \in rootChildren
    /\ last' = IF listFails
               THEN [Trace("status", cat) EXCEPT
                       !.calls = <<"list">>, !.exc = "Error"]
               ELSE [Trace("status", cat) EXCEPT
                       !.calls = <<"list">>,
                       !.listed = RemoteList(cat),
                       !.count = SummaryCount(cat, RemoteList(cat)),
                       !.up = SummaryUp(cat, RemoteList(cat)),
                       !.log = <<"Status">>]
    /\ UNCHANGED <<api, ip, rootChildren, hostsChildren, dcsChildren, rHosts, rDcs>>
    /\ UNCHANGED <<invChildren, rInv, backups, now, proc>>

----------------------------------------------------------------------------
(* The remote engine, changed by its other administrators and by itself *)

\* The clock moves on.
Tick ==
    /\ now < MaxTime
    /\ now' = now + 1
    /\ UNCHANGED <<api, ip, rootChildren, hostsChildren, dcsChildren, rHosts, rDcs>>
    /\ UNCHANGED <<last, invChildren, rInv, backups, proc>>

\* A backup stamped with the present time is put into the backup directory
\* by someone else, or one is taken out of it.
BackupDirChange(b) ==
    /\ b <= now
    /\ backups' = IF b \in backups THEN backups \ {b}
                  ELSE IF b = now THEN backups \cup {b} ELSE backups
    /\ backups' # backups
    /\ UNCHANGED <<api, ip, rootChildren, hostsChildren, dcsChildren, rHosts, rDcs>>
    /\ UNCHANGED <<last, invChildren, rInv, now, proc>>

\* A cluster, storage domain, template or VM appears or disappears.
RemoteInvChange(cat, x) ==
    /\ rInv' = [rInv EXCEPT ![cat] = IF x \in @ THEN @ \ {x} ELSE @ \cup {x}]
    /\ UNCHANGED <<api, ip, rootChildren, hostsChildren, dcsChildren, rHosts, rDcs>>
    /\ UNCHANGED <<last, invChildren, backups, now, proc>>

RemoteHostChange(n, s) ==
    /\ rHosts[n] # s
    /\ rHosts' = [rHosts EXCEPT ![n] = s]
    /\ UNCHANGED <<api, ip, rootChildren, hostsChildren, dcsChildren, rDcs, last>>
    /\ UNCHANGED <<invChildren, rInv, backups, now, proc>>

RemoteDcChange(d) ==
    /\ rDcs' = IF d \in rDcs THEN rDcs \ {d} ELSE rDcs \cup {d}
    /\ UNCHANGED <<api, ip, rootChildren, hostsChildren, dcsChildren, rHosts, last>>
    /\ UNCHANGED <<invChildren, rInv, backups, now, proc>>

----------------------------------------------------------------------------
(* cli.py main *)

\* A command the shell has called and that has not returned: the command
\* and its name argument, the statement it is at, the status it last read,
\* its polls, its remote calls so far and the exception it is raising.
Frame(op, arg, pc) ==
    [op |-> op, arg |-> arg, pc |-> pc, seen |-> None, polls |-> 0,
     calls |-> <<>>, exc |-> None]
NoFrame == Frame("none", "", "")
MaxRunning == 2
NoFrames == [i \in 1..MaxRunning |-> NoFrame]

\* The state of main: pc is the statement it is at, argv the arguments
\* after the program name, exit the status given to sys.exit (none while
\* running), err what was printed to sys.stderr, ran the command lines
\* handed to the shell, raised whether the last one raised, logged the
\* error the loop's except branch logged for it, frames the commands in
\* progress, autosave the auto_save_on_exit preference.
Proc(pc, argv) ==
    [pc |-> pc, argv |-> argv, exit |-> <<>>, err |-> <<>>, ran |-> <<>>,
     raised |-> FALSE, logged |-> <<>>, frames |-> NoFrames, autosave |-> TRUE]

\* main inside `while not shell._exit`, started with no arguments.
Interactive == Proc("interactive", <<>>)

\* The words of a command line, and how many of them sys.argv[1:] holds.
HelpFlags == {"--help", "-h"}
VersionFlags == {"--version", "-v"}
ArgWords ==
    HelpFlags \cup VersionFlags
        \cup {"refresh", "disconnect", "saveconfig", "bogus", "a b"}
MaxArgs == 2
ArgvSet == UNION {[1..n -> ArgWords] : n \in 0..MaxArgs}

\* " ".join(sys.argv[1:]) as the shell's parser reads it back: the words
\* between the blanks, so an argument with a blank in it comes back as two.
Split(word) == IF word = "a b" THEN <<"a", "b">> ELSE <<word>>
RECURSIVE CommandLine(_)
CommandLine(args) ==
    IF args = <<>> THEN <<>> ELSE Split(Head(args)) \o CommandLine(Tail(args))

\* The status the parent process sees for sys.exit(code).
ExitStatus(code) == code % 256

\* Faulty variant of CmdlineExit: exit 0 whatever the command did.
CmdlineExitZero(raised) == ExitStatus(0)

\* try: run_cmdline(...) except: sys.exit(1); then sys.exit(0).
CmdlineExit(raised) == IF raised THEN ExitStatus(1) ELSE ExitStatus(0)

\* main up to its test of sys.argv: the shell, the root node and its first
\* refresh; an exception there is displayed and ends the program.
main_construct ==
    /\ proc.pc = "start"
    /\ RootRefresh(api, 0)
    /\ proc' = IF RootRefreshExc(api, 0) # None
               THEN [proc EXCEPT !.pc = "exited", !.exit = <<ExitStatus(-1)>>]
               ELSE [proc EXCEPT !.pc = "args"]
    /\ UNCHANGED <<api, ip, rHosts, rDcs, last, rInv, backups, now>>

\* usage(): five lines on sys.stderr, sys.exit(-1).
main_usage ==
    /\ proc.pc = "args"
    /\ Len(proc.argv) > 0
    /\ proc.argv[1] \in HelpFlags
    /\ proc' = [proc EXCEPT !.pc = "exited", !.err = <<"Usage">>,
                            !.exit = <<ExitStatus(-1)>>]
    /\ UNCHANGED <<api, ip, rootChildren, hostsChildren, dcsChildren, rHosts, rDcs>>
    /\ UNCHANGED <<last, invChildren, rInv, backups, now>>

\* version(): one line on sys.stderr, sys.exit(-1).
main_version ==
    /\ proc.pc = "args"
    /\ Len(proc.argv) > 0
    /\ proc.argv[1] \notin HelpFlags
    /\ proc.argv[1] \in VersionFlags
    /\ proc' = [proc EXCEPT !.pc = "exited", !.err = <<"version">>,
                            !.exit = <<ExitStatus(-1)>>]
    /\ UNCHANGED <<api, ip, rootChildren, hostsChildren, dcsChildren, rHosts, rDcs>>
    /\ UNCHANGED <<last, invChildren, rInv, backups, now>>

\* shell.run_cmdline(line) on the root node: the root's command the line
\* names, or the shell's ExecutionError for a line that names none or gives
\* it parameters it does not take.
RunCmdline(line, homeKnown, fileExists) ==
    IF line = <<"refresh">> THEN UIRoot_ui_command_refresh(0)
    ELSE IF line = <<"disconnect">> THEN ui_command_disconnect
    ELSE IF line = <<"saveconfig">>
    THEN ui_command_saveconfig(default_save_file, homeKnown, fileExists)
    ELSE IF Len(line) = 2 /\ line[1] = "saveconfig"
    THEN ui_command_saveconfig(line[2], homeKnown, fileExists)
    ELSE /\ last' = [Trace("cmdline", line[1]) EXCEPT !.exc = "ExecutionError"]
         /\ UNCHANGED <<api, ip, rootChildren, hostsChildren, dcsChildren>>
         /\ UNCHANGED <<rHosts, rDcs, invChildren, rInv, backups, now>>

\* Any other argument: the arguments joined and run as one command line;
\* exit 1 with the message on sys.stderr when it raises, exit 0 otherwise.
main_cmdline(homeKnown, fileExists) ==
    /\ proc.pc = "args"
    /\ Len(proc.argv) > 0
    /\ proc.argv[1] \notin HelpFlags \cup VersionFlags
    /\ RunCmdline(CommandLine(proc.argv), homeKnown, fileExists)
    /\ LET raised == last'.exc # None
       IN  proc' = [proc EXCEPT !.pc = "exited",
                                !.ran = <<CommandLine(proc.argv)>>,
                                !.raised = raised,
                                !.err = IF raised THEN <<"error">> ELSE <<>>,
                                !.exit = <<CmdlineExit(raised)>>]

\* No argument: the banner, then the interactive loop.
main_interactive ==
    /\ proc.pc = "args"
    /\ Len(proc.argv) = 0
    /\ proc' = [proc EXCEPT !.pc = "interactive"]
    /\ UNCHANGED <<api, ip, rootChildren, hostsChildren, dcsChildren, rHosts, rDcs>>
    /\ UNCHANGED <<last, invChildren, rInv, backups, now>>

----------------------------------------------------------------------------
(* The interactive loop of main and what follows it *)

\* The except branch of the loop: shell.log.error(str(msg)).
Logged(exc) == IF exc # None THEN <<exc>> ELSE <<>>

\* A command of the root node typed in the loop.
RootCommands == {"connect", "disconnect", "refresh", "saveconfig"}
RunRootCommand(cmd, addr, testOk, failAt, path, homeKnown, fileExists) ==
    CASE cmd = "connect" -> ui_command_connect(addr, testOk, failAt)
      [] cmd = "disconnect" -> ui_command_disconnect
      [] cmd = "refresh" -> UIRoot_ui_command_refresh(failAt)
      [] cmd = "saveconfig" -> ui_command_saveconfig(path, homeKnown, fileExists)

\* One turn of `while not shell._exit`: the command runs; when it raises,
\* the error is logged; the loop goes on either way.
main_loop_command(cmd, addr, testOk, failAt, path, homeKnown, fileExists) ==
    /\ proc.pc = "interactive"
    /\ RunRootCommand(cmd, addr, testOk, failAt, path, homeKnown, fileExists)
    /\ proc' = [proc EXCEPT !.raised = last'.exc # None,
                            !.logged = Logged(last'.exc)]

\* `set global auto_save_on_exit=...` in the loop: UINode.ui_setgroup_global
\* sets the preference and refreshes the root.
main_loop_set_autosave(value, failAt) ==
    /\ proc.pc = "interactive"
    /\ api = None => failAt = 0
    /\ RootRefresh(api, failAt)
    /\ last' = [Trace("set", "auto_save_on_exit") EXCEPT
                 !.calls = RootRefreshCalls(api, failAt),
                 !.refreshes = <<"/">>,
                 !.exc = RootRefreshExc(api, failAt)]
    /\ proc' = [proc EXCEPT !.autosave = value,
                            !.raised = last'.exc # None,
                            !.logged = Logged(last'.exc)]
    /\ UNCHANGED <<api, ip, rHosts, rDcs, rInv, backups, now>>

\* `exit` (or end of input): shell._exit is set and the loop ends.
main_loop_exit ==
    /\ proc.pc = "interactive"
    /\ proc' = [proc EXCEPT !.pc = "leaving"]
    /\ UNCHANGED <<api, ip, rootChildren, hostsChildren, dcsChildren, rHosts, rDcs>>
    /\ UNCHANGED <<last, invChildren, rInv, backups, now>>

\* After the loop: root_node.ui_command_disconnect().
main_disconnect ==
    /\ proc.pc = "leaving"
    /\ ui_command_disconnect
    /\ proc' = [proc EXCEPT !.pc = "disconnected", !.ran = <<"disconnect">>]

\* Faulty variant of ShutdownSaves: the preference not consulted.
ShutdownSavesAlways(autosave) == TRUE

\* if shell.prefs['auto_save_on_exit'].
ShutdownSaves(autosave) == autosave

\* The end of main: saveconfig when the preference says so, then the return
\* (status 0), or the traceback of what saveconfig raised (status 1).
main_autosave(homeKnown, fileExists) ==
    /\ proc.pc = "disconnected"
    /\ IF ShutdownSaves(proc.autosave)
       THEN /\ ui_command_saveconfig(default_save_file, homeKnown, fileExists)
            /\ proc' = [proc EXCEPT !.pc = "exited",
                                    !.ran = @ \o <<"saveconfig">>,
                                    !.raised = last'.exc # None,
                                    !.exit = <<CmdlineExit(last'.exc # None)>>]
       ELSE /\ proc' = [proc EXCEPT !.pc = "exited", !.exit = <<ExitStatus(0)>>]
            /\ UNCHANGED <<api, ip, rootChildren, hostsChildren, dcsChildren>>
            /\ UNCHANGED <<rHosts, rDcs, last, invChildren, rInv, backups, now>>

----------------------------------------------------------------------------
(* The commands of /Hosts statement by statement, as the loop of main calls
   them *)

\* Faulty variant of ShellIdle: a command called while another has not
\* returned.
ShellIdleAlways(frames) == TRUE

\* shell.run_interactive() is a plain call on main's only thread: the loop
\* calls the next command when none is in progress.
ShellIdle(frames) == \A i \in DOMAIN frames : frames[i] = NoFrame

\* What no statement of a /Hosts command touches.
HostsCommandFrame ==
    UNCHANGED <<api, ip, rootChildren, dcsChildren, rDcs, last, invChildren,
                rInv, backups, now>>

\* The shell calls create, delete or refresh on /Hosts.
shell_dispatch(i, op, name) ==
    /\ proc.pc = "interactive"
    /\ "Hosts" \in rootChildren
    /\ ShellIdle(proc.frames)
    /\ proc.frames[i] = NoFrame
    /\ \A j \in 1..(i - 1) : proc.frames[j] # NoFrame
    /\ proc' = [proc EXCEPT !.frames[i] =
                  Frame(op, name, IF op = "hosts_refresh" THEN "refresh" ELSE "called")]
    /\ UNCHANGED <<rHosts, hostsChildren>>
    /\ HostsCommandFrame

\* create: hosts_service.add is sent; the engine takes the host or refuses.
create_add(i, addFails) ==
    LET f == proc.frames[i]
    IN  /\ f.op = "hosts_create" /\ f.pc = "called"
        /\ IF AddAccepted(f.arg, addFails)
           THEN /\ rHosts' = [rHosts EXCEPT ![f.arg] = INSTALLING]
                /\ proc' = [proc EXCEPT !.frames[i] =
                              [f EXCEPT !.pc = "adding", !.calls = @ \o <<"add">>]]
           ELSE /\ proc' = [proc EXCEPT !.frames[i] =
                              [f EXCEPT !.pc = "adding", !.calls = @ \o <<"add">>,
                                        !.exc = "Error"]]
                /\ UNCHANGED rHosts
        /\ UNCHANGED hostsChildren
        /\ HostsCommandFrame

\* The add or the remove returns, or raises.
call_returns(i) ==
    LET f == proc.frames[i]
    IN  /\ f.pc \in {"adding", "removing"}
        /\ proc' = [proc EXCEPT !.frames[i] =
                      [f EXCEPT !.pc = IF f.exc # None THEN "raised"
                                       ELSE IF f.pc = "adding" THEN "wait"
                                       ELSE "refresh"]]
        /\ UNCHANGED <<rHosts, hostsChildren>>
        /\ HostsCommandFrame

\* create: one test of `while not elapsed` and the iteration it lets in;
\* when that leaves the loop, the statements after it: on to the refresh
\* for a host that is UP, a log line and the return for any other.
create_loop(i) ==
    LET f == proc.frames[i]
        k == f.polls + 1
        st == rHosts[f.arg]
        polled == [f EXCEPT !.polls = k, !.seen = st, !.calls = @ \o <<"get">>]
        after == IF st = UP THEN "refresh" ELSE "done"
    IN  /\ f.op = "hosts_create" /\ f.pc = "wait"
        /\ k <= MaxPolls
        /\ proc' = [proc EXCEPT !.frames[i] =
                      IF "elapsed" \notin CreateLocals
                      THEN [f EXCEPT !.pc = "raised", !.exc = "UnboundLocalError"]
                      ELSE IF st \in Terminal
                      THEN [polled EXCEPT !.pc = after]
                      ELSE IF "start_time" \notin UIHostsAttrs
                      THEN [polled EXCEPT !.pc = "raised", !.exc = "AttributeError"]
                      ELSE IF k * PollInterval > Timeout
                      THEN [polled EXCEPT !.pc = after]
                      ELSE polled]
        /\ UNCHANGED <<rHosts, hostsChildren>>
        /\ HostsCommandFrame

\* delete: the lookup by name and the test of the status.
delete_lookup(i, lookupFails) ==
    LET f == proc.frames[i]
        seen == Lookup(rHosts, f.arg, lookupFails)
    IN  /\ f.op = "hosts_delete" /\ f.pc = "called"
        /\ proc' = [proc EXCEPT !.frames[i] =
                      [f EXCEPT !.seen = seen, !.calls = @ \o <<"list_search">>,
                                !.pc = IF seen = NotFound \/ ~HostDeleteGuard(seen)
                                       THEN "done" ELSE "guarded"]]
        /\ UNCHANGED <<rHosts, hostsChildren>>
        /\ HostsCommandFrame

\* delete: host_service.remove is sent; the engine removes the host or
\* refuses.
delete_remove(i, callFails) ==
    LET f == proc.frames[i]
    IN  /\ f.op = "hosts_delete" /\ f.pc = "guarded"
        /\ IF callFails
           THEN /\ proc' = [proc EXCEPT !.frames[i] =
                              [f EXCEPT !.pc = "removing", !.calls = @ \o <<"remove">>,
                                        !.exc = "Error"]]
                /\ UNCHANGED rHosts
           ELSE /\ rHosts' = [rHosts EXCEPT ![f.arg] = Absent]
                /\ proc' = [proc EXCEPT !.frames[i] =
                              [f EXCEPT !.pc = "removing", !.calls = @ \o <<"remove">>]]
        /\ UNCHANGED hostsChildren
        /\ HostsCommandFrame

\* UIHosts.refresh, first statement: self._children = set([]).
refresh_clear(i) ==
    LET f == proc.frames[i]
    IN  /\ f.pc = "refresh"
        /\ hostsChildren' = NoHosts
        /\ proc' = [proc EXCEPT !.frames[i] = [f EXCEPT !.pc = "listing"]]
        /\ UNCHANGED rHosts
        /\ HostsCommandFrame

\* UIHosts.refresh, the rest: the list call and one entry per host.
refresh_list(i, listFails) ==
    LET f == proc.frames[i]
    IN  /\ f.pc = "listing"
        /\ hostsChildren' = HostsRefresh(rHosts, listFails)
        /\ proc' = [proc EXCEPT !.frames[i] =
                      [f EXCEPT !.calls = @ \o <<"list">>,
                                !.pc = IF listFails THEN "raised" ELSE "done",
                                !.exc = IF listFails THEN "Error" ELSE None]]
        /\ UNCHANGED rHosts
        /\ HostsCommandFrame

\* The command returns to the loop of main, or raises into its except
\* branch, which logs the error; the loop goes on.
command_returns(i) ==
    LET f == proc.frames[i]
    IN  /\ f.pc \in {"done", "raised"}
        /\ proc' = [proc EXCEPT !.frames[i] = NoFrame,
                                !.raised = f.pc = "raised"]
        /\ UNCHANGED <<rHosts, hostsChildren>>
        /\ HostsCommandFrame

----------------------------------------------------------------------------

Init ==
    /\ api = None
    /\ ip = None
    /\ rootChildren = {}
    /\ hostsChildren = NoHosts
    /\ dcsChildren = {}
    /\ rHosts = NoHosts
    /\ rDcs = {}
    /\ last = Trace("init", "")
    /\ invChildren = NoItems
    /\ rInv = NoItems
    /\ backups = {}
    /\ now = 1
    /\ proc = Interactive

Next ==
    \/ \E a \in Addrs, ok \in BOOLEAN, f \in FailPoints : ui_command_connect(a, ok, f) /\ UNCHANGED proc
    \/ ui_command_disconnect /\ UNCHANGED proc
    \/ \E f \in FailPoints : UIRoot_ui_command_refresh(f) /\ UNCHANGED proc
    \/ \E n \in HostNames, sc \in PollScripts, f \in {0, 1, 3} :
          UIHosts_ui_command_create(n, sc, f)
    \/ \E n \in HostNames, f \in CallFailPoints : UIHosts_ui_command_delete(n, f)
    \/ \E n \in HostNames, f \in CallFailPoints : UIHosts_ui_command_deactivate(n, f)
    \/ \E n \in HostNames, f \in CallFailPoints : UIHosts_ui_command_activate(n, f)
    \/ \E n \in HostNames, f \in CallFailPoints : UIHost_ui_command_deactivate(n, f)
    \/ \E n \in HostNames, f \in CallFailPoints : UIHost_ui_command_activate(n, f)
    \/ \E n \in HostNames : UIHost_ui_command_delete(n)
    \/ \E lf \in BOOLEAN : UIHosts_ui_command_refresh(lf)
    \/ \E d \in DcNames, f \in {0, 1, 3} : UIData_centers_ui_command_create(d, f)
    \/ \E d \in DcNames, f \in CallFailPoints : UIData_centers_ui_command_delete(d, f)
    \/ \E d \in DcNames, f \in CallFailPoints : UIData_center_ui_command_delete(d, f)
    \/ \E lf \in BOOLEAN : UIData_centers_ui_command_refresh(lf)
    \/ \E n \in HostNames, s \in HostStatus \cup {Absent} : RemoteHostChange(n, s)
    \/ \E d \in DcNames : RemoteDcChange(d)

Spec == Init /\ [][Next]_vars

\* The lifecycle commands on their own: one engine, no host create.
NextLife ==
    \/ ui_command_connect("engine1", TRUE, 0) /\ UNCHANGED proc
    \/ ui_command_disconnect /\ UNCHANGED proc
    \/ \E f \in FailPoints : UIRoot_ui_command_refresh(f) /\ UNCHANGED proc
    \/ \E n \in HostNames, f \in CallFailPoints : UIHosts_ui_command_delete(n, f)
    \/ \E n \in HostNames, f \in CallFailPoints : UIHosts_ui_command_deactivate(n, f)
    \/ \E n \in HostNames, f \in CallFailPoints : UIHosts_ui_command_activate(n, f)
    \/ \E n \in HostNames, f \in CallFailPoints : UIHost_ui_command_deactivate(n, f)
    \/ \E n \in HostNames, f \in CallFailPoints : UIHost_ui_command_activate(n, f)
    \/ \E n \in HostNames : UIHost_ui_command_delete(n)
    \/ \E lf \in BOOLEAN : UIHosts_ui_command_refresh(lf)
    \/ \E d \in DcNames, f \in {0, 1, 3} : UIData_centers_ui_command_create(d, f)
    \/ \E d \in DcNames, f \in CallFailPoints : UIData_centers_ui_command_delete(d, f)
    \/ \E d \in DcNames, f \in CallFailPoints : UIData_center_ui_command_delete(d, f)
    \/ \E lf \in BOOLEAN : UIData_centers_ui_command_refresh(lf)
    \/ \E n \in HostNames, s \in HostStatus \cup {Absent} : RemoteHostChange(n, s)
    \/ \E d \in DcNames : RemoteDcChange(d)

SpecLife == Init /\ [][NextLife]_vars

\* saveconfig and the backup directory.
NextSave ==
    \/ \E p \in SavePaths, hk \in BOOLEAN, fe \in BOOLEAN :
          ui_command_saveconfig(p, hk, fe) /\ UNCHANGED proc
    \/ Tick
    \/ \E b \in 1..MaxTime : BackupDirChange(b)

SpecSave == Init /\ [][NextSave]_vars

\* The program from its start, for every argument list.
InitMain ==
    /\ api = None
    /\ ip = None
    /\ rootChildren = {}
    /\ hostsChildren = NoHosts
    /\ dcsChildren = {}
    /\ rHosts = NoHosts
    /\ rDcs = {}
    /\ last = Trace("init", "")
    /\ invChildren = NoItems
    /\ rInv = NoItems
    /\ backups = {}
    /\ now = 1
    /\ proc \in {Proc("start", a) : a \in ArgvSet}

NextMain ==
    \/ main_construct
    \/ main_usage
    \/ main_version
    \/ \E hk \in BOOLEAN, fe \in BOOLEAN : main_cmdline(hk, fe)
    \/ main_interactive

SpecMain == InitMain /\ [][NextMain]_vars

\* The loop of main calling the commands of /Hosts, statement by statement,
\* on an engine that changes meanwhile.
Slots == 1..MaxRunning

NextSerial ==
    \/ /\ ShellIdle(proc.frames)
       /\ ui_command_connect("engine1", TRUE, 0)
       /\ UNCHANGED proc
    \/ \E i \in Slots, n \in HostNames, op \in {"hosts_create", "hosts_delete"} :
          shell_dispatch(i, op, n)
    \/ \E i \in Slots : shell_dispatch(i, "hosts_refresh", "")
    \/ \E i \in Slots, af \in BOOLEAN : create_add(i, af)
    \/ \E i \in Slots : call_returns(i)
    \/ \E i \in Slots : create_loop(i)
    \/ \E i \in Slots, lf \in BOOLEAN : delete_lookup(i, lf)
    \/ \E i \in Slots, cf \in BOOLEAN : delete_remove(i, cf)
    \/ \E i \in Slots : refresh_clear(i)
    \/ \E i \in Slots, lf \in BOOLEAN : refresh_list(i, lf)
    \/ \E i \in Slots : command_returns(i)
    \/ \E n \in HostNames, s \in HostStatus \cup {Absent} : RemoteHostChange(n, s)

SpecSerial == Init /\ [][NextSerial]_vars

\* The interactive loop with the root's commands, its end and the shutdown
\* of main.
NextExit ==
    \/ \E ok \in BOOLEAN, f \in FailPoints :
          main_loop_command("connect", "engine1", ok, f, default_save_file, TRUE, TRUE)
    \/ main_loop_command("disconnect", "engine1", TRUE, 0, default_save_file, TRUE, TRUE)
    \/ \E f \in FailPoints :
          main_loop_command("refresh", "engine1", TRUE, f, default_save_file, TRUE, TRUE)
    \/ \E p \in SavePaths, hk \in BOOLEAN :
          main_loop_command("saveconfig", "engine1", TRUE, 0, p, hk, TRUE)
    \/ \E v \in BOOLEAN, f \in FailPoints : main_loop_set_autosave(v, f)
    \/ main_loop_exit
    \/ main_disconnect
    \/ \E hk \in BOOLEAN, fe \in BOOLEAN : main_autosave(hk, fe)
    \/ \E n \in HostNames, s \in HostStatus \cup {Absent} : RemoteHostChange(n, s)
    \/ \E d \in DcNames : RemoteDcChange(d)

SpecExit == Init /\ [][NextExit]_vars

\* The six collections side by side: a session to one engine, refresh and
\* status of each collection, and an engine whose inventory changes.
CollHostStatus == {UP, MAINTENANCE, Absent}

NextColl ==
    \/ ui_command_connect("engine1", TRUE, 0) /\ UNCHANGED proc
    \/ UIRoot_ui_command_refresh(0) /\ UNCHANGED proc
    \/ \E lf \in BOOLEAN : UIData_centers_ui_command_refresh(lf)
    \/ \E lf \in BOOLEAN : UIHosts_ui_command_refresh(lf)
    \/ \E c \in OtherCats, lf \in BOOLEAN : Other_ui_command_refresh(c, lf)
    \/ \E c \in AllCats, lf \in BOOLEAN : ui_command_status(c, lf)
    \/ \E n \in HostNames, st \in CollHostStatus : RemoteHostChange(n, st)
    \/ \E d \in DcNames : RemoteDcChange(d)
    \/ \E c \in OtherCats, x \in ItemNames : RemoteInvChange(c, x)

SpecColl == Init /\ [][NextColl]_vars

----------------------------------------------------------------------------
(* Properties *)

AllCategories == {CatOrder[i] : i \in 1..Len(CatOrder)}
IsCreate == last.op = "hosts_create"
\* The engine accepted the add and no later remote call failed.
AddAccepted_Last == IsCreate /\ last.exc # "Error"
LastStatus(script) == script[Len(script)]

\* C1: host create, success path. When the statuses the polls would see
\* are k-1 non-terminal ones followed by UP, the command polls exactly k
\* times, logs success, refreshes the Hosts collection exactly once and
\* returns without raising.
C1_CreateSuccessPath ==
    (AddAccepted_Last /\ \E k \in 1..MaxPolls : last.script = ScriptUp(k))
    => /\ last.polls = Len(last.script)
       /\ last.log = <<"Host was successfully added.">>
       /\ last.refreshes = <<"Hosts">>
       /\ last.exc = None

\* C2: host create, failure path. When the polled status becomes
\* NonOperational, or never becomes terminal, the command logs the failure
\* with the last observed status and returns normally, with one add, no
\* remove and no refresh.
C2_CreateFailurePath ==
    (AddAccepted_Last /\ LastStatus(last.script) # UP)
    => /\ last.exc = None
       /\ last.log = <<"Host was not added properly. Status:", LastStatus(last.script)>>
       /\ Count(last.calls, "add") = 1
       /\ ~Has(last.calls, "remove")
       /\ last.refreshes = <<>>

\* C3: the poll loop of host create terminates for every status script by
\* one of its two exits: the first poll that returns UP or NonOperational,
\* or the deadline; the polls are at least one and at most
\* Timeout / PollInterval + 1.
C3_PollLoopExits ==
    AddAccepted_Last
    => /\ last.exit \in {"terminal", "deadline"}
       /\ last.polls \in 1..(Timeout \div PollInterval + 1)
       /\ last.exit = "terminal"
            => /\ last.seen \in Terminal
               /\ \A i \in 1..(last.polls - 1) : Polled(last.script, i) \notin Terminal

\* C4: host delete guard. A remove is issued only when the lookup of the
\* same command returned MAINTENANCE; for any other status the command
\* logs "deactivate first", issues no remove, does not refresh and leaves
\* the children of Hosts as they were.
C4_DeleteGuard ==
    [][
        last'.op = "hosts_delete"
        => /\ Has(last'.calls, "remove") => last'.seen = MAINTENANCE
           /\ last'.seen \in HostStatus \ {MAINTENANCE}
                => /\ last'.log = <<"Host is not in Maintenance. Deactivate it first.">>
                   /\ ~Has(last'.calls, "remove")
                   /\ last'.refreshes = <<>>
                   /\ last'.exc = None
                   /\ hostsChildren' = hostsChildren
    ]_vars
C4_Witness ==
    /\ last.op = "hosts_delete"
    /\ last.seen \in HostStatus \ {MAINTENANCE}
    /\ hostsChildren # NoHosts

\* The commands C5 is about: activate on a host that is UP, deactivate on
\* a host that is in MAINTENANCE, on the collection or on the entry.
ActivateOps == {"hosts_activate", "host_activate"}
DeactivateOps == {"hosts_deactivate", "host_deactivate"}
AlreadySatisfied(t) ==
    \/ t.op \in ActivateOps /\ t.seen = UP
    \/ t.op \in DeactivateOps /\ t.seen = MAINTENANCE
\* C5 as stated: activate on a host that is already UP, and deactivate on
\* a host already in MAINTENANCE, perform zero remote calls.
C5_ZeroRemoteCalls == AlreadySatisfied(last) => last.calls = <<>>
\* C5 as amended: activate on a host that is already UP, and deactivate
\* on a host already in MAINTENANCE, perform the name-filtered lookup and no
\* other remote call, logs nothing, does not refresh, does not raise and
\* leaves the engine and the tree as they were.
C5_LookupOnlyNoOp ==
    [][
        AlreadySatisfied(last')
        => /\ last'.calls = <<"list_search">>
           /\ last'.log = <<>>
           /\ last'.refreshes = <<>>
           /\ last'.exc = None
           /\ UNCHANGED <<rootChildren, hostsChildren, dcsChildren>>
           /\ last' # last => UNCHANGED <<rHosts, rDcs>>
    ]_vars
C5_Witness ==
    /\ last.op = "host_activate"
    /\ last.seen = UP
    /\ rHosts[last.arg] = UP

AlreadyConnectedMsg == "Already connected. Disconnect first"

\* C6: connect while a session exists logs and returns at once: no handle is
\* constructed, the handle and the recorded address stay, nothing is
\* refreshed.
C6_ConnectWhileConnected ==
    [][
        (last' # last /\ last'.op = "connect" /\ api # None)
        => /\ Has(last'.log, AlreadyConnectedMsg)
           /\ ~Has(last'.calls, "Connection")
           /\ api' = api
           /\ ip' = ip
           /\ last'.refreshes = <<>>
    ]_vars

\* C7: connect from the disconnected state. A successful test sets the
\* handle and triggers a refresh of the whole tree; a failed test is
\* logged, the handle is kept all the same, nothing is refreshed and the
\* root keeps the children it had.
C7_ConnectFromDisconnected ==
    [][
        (last' # last /\ last'.op = "connect" /\ api = None)
        => /\ last'.seen = "ok"
                => /\ api' = Connection(last'.arg)
                   /\ is_connected'
                   /\ last'.refreshes = <<"/">>
           /\ last'.seen = "failed"
                => /\ Has(last'.log, "Failed to test connection to oVirt Engine.")
                   /\ api' = Connection(last'.arg)
                   /\ is_connected'
                   /\ last'.refreshes = <<>>
                   /\ rootChildren' = rootChildren
    ]_vars
C7_Witness ==
    /\ last.op = "connect"
    /\ last.seen = "failed"
    /\ ~Has(last.log, AlreadyConnectedMsg)
    /\ is_connected
    /\ rootChildren = {}

\* C8: disconnect with no session only logs "already disconnected": it
\* does not raise, issues no remote call, leaves the handle absent and
\* the root without children, and changes nothing in the tree, however
\* often it is repeated.
C8_DisconnectIdempotent ==
    [][
        (api = None /\ last'.op = "disconnect")
        => /\ api' = None
           /\ rootChildren' = {}
           /\ UNCHANGED <<ip, rootChildren, hostsChildren, dcsChildren>>
           /\ last'.exc = None
           /\ last' # last
                => /\ last'.log = <<"Already disconnected from oVirt Engine.">>
                   /\ last'.calls = <<>>
    ]_vars
C8_Witness ==
    /\ last.op = "disconnect"
    /\ last.log = <<"Already disconnected from oVirt Engine.">>
    /\ api = None

\* C9: whenever there is no session handle the root has no children, and
\* so no collection has entries.
C9_NoSessionNoChildren ==
    api = None => rootChildren = {} /\ hostsChildren = NoHosts /\ dcsChildren = {}
C9_Witness ==
    /\ api = None
    /\ last.op = "disconnect"
    /\ last.calls = <<"close">>
    /\ rHosts # NoHosts

\* The last command refreshed the root.
RootRefreshed == last.refreshes = <<"/">>

DeleteOps == {"dcs_delete", "dc_delete", "hosts_delete"}
\* The engine has an entry named by the command's argument.
RemoteHas(t) ==
    IF t.op = "hosts_delete" THEN rHosts[t.arg] # Absent ELSE t.arg \in rDcs

\* C11: delete(name) on Datacenters or Hosts when the engine has no entry
\* of that name issues no remove, does not refresh, leaves the children of
\* the collection as they were, logs "not found" and returns normally.
C11_DeleteAbsent ==
    [][
        (last' # last /\ last'.op \in DeleteOps /\ ~RemoteHas(last'))
        => /\ last'.calls = <<"list_search">>
           /\ last'.refreshes = <<>>
           /\ last'.seen = NotFound
           /\ Len(last'.log) = 1
           /\ last'.exc = None
           /\ UNCHANGED <<hostsChildren, dcsChildren, rHosts, rDcs>>
    ]_vars
C11_Witness ==
    /\ last.op = "hosts_delete"
    /\ last.seen = NotFound
    /\ rHosts[last.arg] = Absent
    /\ hostsChildren[last.arg] # Absent

\* The last command was a refresh of one collection, and its list call
\* returned.
CollRefreshed == last.op = "refresh" /\ last.arg \in AllCats /\ last.exc = None

\* C12: for every category (Datacenters, Clusters, Hosts, Storagedomains,
\* Templates, VMs), right after refresh() of the collection its children are
\* exactly one entry per element the list call returned, and nothing else.
C12_RefreshBuildsAll ==
    CollRefreshed => ChildrenOf(last.arg) = last.listed

\* C13: refresh() of a collection followed at once by its summary(), the
\* engine being as the refresh found it and both calls returning, reports a
\* count equal to the number of elements the refresh was given; for Hosts
\* the UP count is the number of those whose status is UP, and never more
\* than the count.
C13_RefreshThenSummary ==
    [][
        (/\ CollRefreshed
         /\ RemoteList(last.arg) = last.listed
         /\ last'.op = "status" /\ last'.arg = last.arg /\ last'.exc = None)
        => /\ last'.count = Cardinality(last.listed)
           /\ last'.up <= last'.count
           /\ last.arg = "Hosts"
                => last'.up = Cardinality({h \in last.listed : h[2] = UP})
    ]_vars
C13_Witness ==
    /\ last.op = "status" /\ last.arg = "Hosts" /\ last.exc = None
    /\ last.count = 1 /\ last.up = 0
    /\ ChildrenOf("Hosts") = last.listed

CreateOps == {"dcs_create", "hosts_create"}
\* The collection a create command belongs to holds an entry of the name.
HasEntry(t) ==
    IF t.op = "hosts_create" THEN hostsChildren[t.arg] # Absent
    ELSE t.arg \in dcsChildren

\* C14: read-your-writes on create. For Datacenters and Hosts, when the add
\* is accepted (and no remote call of the command fails) the command has
\* refreshed its collection before it returns, and the new entry is among
\* the collection's children.
C14_ReadYourWrites ==
    (last.op \in CreateOps /\ last.exc # "Error")
    => /\ Len(last.refreshes) = 1
       /\ HasEntry(last)

\* C17: the delete commands of Datacenters and Hosts do not swallow a
\* failure of a remote call: "not found" is reported only when the engine
\* has no entry of that name, a failed lookup or remove leaves the command
\* with the exception, and a failed remove leaves the children as they were
\* and refreshes nothing.
C17_DeleteFailuresPropagate ==
    [][
        (last' # last /\ last'.op \in DeleteOps)
        => /\ last'.seen = NotFound => ~RemoteHas(last')
           /\ (RemoteHas(last') /\ last'.refreshes = <<>>
                 /\ (last'.op = "hosts_delete" => HostDeleteGuard(rHosts[last'.arg])))
              => /\ last'.exc = "Error"
                 /\ UNCHANGED <<hostsChildren, dcsChildren>>
    ]_vars

HostGuardOps == {"hosts_delete"} \cup ActivateOps \cup DeactivateOps
\* The command goes on to its remote call for a host in this status.
Proceeds(op, status) ==
    CASE op = "hosts_delete" -> status = MAINTENANCE
      [] op \in DeactivateOps -> status # MAINTENANCE
      [] op \in ActivateOps -> status # UP

\* C18: every host activate, deactivate and delete, on the collection or on
\* an entry, starts with a remote lookup; the status it decides on is the
\* one the engine holds at that moment (or none, the lookup having given
\* nothing), never the one stored in the tree, and the remote call is made
\* exactly when that status passes the guard.
C18_FreshGuard ==
    [][
        (last' # last /\ last'.op \in HostGuardOps)
        => /\ last'.calls[1] = "list_search"
           /\ last'.seen \in {NotFound, rHosts[last'.arg]}
           /\ last'.seen = NotFound => Len(last'.calls) = 1
           /\ last'.seen # NotFound
                => (Len(last'.calls) > 1 <=> Proceeds(last'.op, rHosts[last'.arg]))
    ]_vars
C18_Witness ==
    /\ last.op = "hosts_delete"
    /\ last.seen = UP
    /\ hostsChildren[last.arg] = MAINTENANCE
    /\ Len(last.calls) = 1

EntryOps == {"dc_delete", "host_activate", "host_deactivate", "host_delete"}
\* The parent collection's by-name command, run for an entry-level command.
ParentCommand(op, name, f) ==
    CASE op = "dc_delete" ->
            DcsDelete(op, name, f) /\ UNCHANGED <<rHosts, hostsChildren>>
      [] op = "host_delete" ->
            HostsDelete(op, name, f) /\ UNCHANGED <<rDcs, dcsChildren>>
      [] op = "host_deactivate" ->
            /\ HostsSwitch(op, name,
                           HostDeactivateGuard(Lookup(rHosts, name, f = 1)),
                           "deactivate", MAINTENANCE, f)
            /\ UNCHANGED <<rDcs, dcsChildren>>
      [] op = "host_activate" ->
            /\ HostsSwitch(op, name,
                           HostActivateGuard(Lookup(rHosts, name, f = 1)),
                           "activate", UP, f)
            /\ UNCHANGED <<rDcs, dcsChildren>>

\* C19: every entry-level command (delete on a data center entry; activate,
\* deactivate and delete on a host entry) makes the remote calls and leaves
\* the parent's children that the parent collection's by-name command makes
\* and leaves for the entry's name.
C19_EntryDelegates ==
    [][
        (last' # last /\ last'.op \in EntryOps)
        => \E f \in CallFailPoints : ParentCommand(last'.op, last'.arg, f)
    ]_vars

\* The collections a command refreshed.
Refreshed(t) ==
    IF Has(t.refreshes, "/") THEN AllCats
    ELSE {c \in AllCats : Has(t.refreshes, c)}

\* C20: after a refresh of a collection or of the root, returning or raising
\* part-way, every child of a refreshed collection was built from the list
\* fetched in that call: none when the list call failed or was not reached;
\* and once a delete has removed a resource its collection has no entry of
\* that name.
C20_NoStaleAfterRefresh ==
    [][
        last' # last
        => /\ \A c \in Refreshed(last') :
                /\ ChildrenOf(c)' \subseteq RemoteList(c)'
                /\ (last'.exc = "Error" /\ ~Has(last'.refreshes, "/"))
                     => ChildrenOf(c)' = {}
                /\ (Has(last'.refreshes, "/") /\ c \notin rootChildren')
                     => ChildrenOf(c)' = {}
           /\ (last'.op \in DeleteOps /\ Has(last'.calls, "remove")
                 /\ last'.refreshes # <<>>)
                => IF last'.op = "hosts_delete"
                   THEN hostsChildren'[last'.arg] = Absent
                   ELSE last'.arg \notin dcsChildren'
    ]_vars
C20_Witness ==
    /\ last.op = "refresh" /\ last.arg = "Hosts" /\ last.exc = "Error"
    /\ hostsChildren = NoHosts
    /\ rHosts # NoHosts

\* C15: each saveconfig to the default save file adds a backup stamped with
\* the time of the save, and leaves at most kept_backups backups in the
\* backup directory: the newest ones, the present one among them.
C15_BackupRotation ==
    [][
        (last' # last /\ last'.op = "saveconfig" /\ last'.arg = default_save_file)
        => /\ now \in backups'
           /\ Cardinality(backups') <= kept_backups
           /\ \A b \in backups \cup {now} :
                b \in backups'
                <=> Cardinality({c \in backups \cup {now} : c > b}) < kept_backups
    ]_vars

\* main has got past its test of the arguments.
Dispatched == proc.pc \notin {"start", "args"}

\* C16: with no argument the program enters the interactive shell; with
\* --help/-h or --version/-v first it prints to the error stream and exits
\* nonzero, no command having run; with any other arguments it runs them as
\* one command line and exits 0 when the command returns, 1 when it raises.
C16_InvocationModes ==
    Dispatched
    => IF proc.argv = <<>>
       THEN proc.pc = "interactive" /\ proc.exit = <<>> /\ proc.ran = <<>>
       ELSE IF proc.argv[1] \in HelpFlags \cup VersionFlags
       THEN /\ proc.pc = "exited"
            /\ proc.err # <<>>
            /\ proc.exit # <<>> /\ proc.exit[1] # 0
            /\ proc.ran = <<>>
            /\ last.op = "init"
       ELSE /\ proc.pc = "exited"
            /\ Len(proc.ran) = 1
            /\ last.op # "init"
            /\ proc.exit = <<IF last.exc # None THEN 1 ELSE 0>>
C16_Witness ==
    /\ proc.pc = "exited"
    /\ proc.argv = <<"saveconfig">>
    /\ last.exc = "NameError"
    /\ proc.exit = <<1>>

\* The commands in progress, and those with a mutating call in flight.
Active(frames) == {i \in DOMAIN frames : frames[i] # NoFrame}
InFlight(frames) == {i \in DOMAIN frames : frames[i].pc \in {"adding", "removing"}}
Refreshing(frames) == {i \in DOMAIN frames : frames[i].pc \in {"refresh", "listing"}}

\* C21: commands are strictly serialized. At most one command is in
\* progress; hence no two mutating remote calls are in flight at once, no
\* refresh of /Hosts runs while a create or delete on /Hosts is in progress
\* as another command, and from the host add request to the end of its poll
\* loop no other command makes a remote call or changes the tree.
C21_Serialized ==
    [][
        LET fr == proc.frames
        IN  /\ Cardinality(Active(fr)) <= 1
            /\ Cardinality(InFlight(fr)) <= 1
            /\ \A i \in Refreshing(fr) : \A j \in Active(fr) \ {i} :
                  fr[j].op \notin {"hosts_create", "hosts_delete"}
            /\ \A i \in Active(fr) :
                  (fr[i].op = "hosts_create" /\ fr[i].pc \in {"adding", "wait"})
                  => /\ \A j \in DOMAIN fr \ {i} : proc'.frames[j].calls = fr[j].calls
                     /\ last' = last
                     /\ UNCHANGED <<rootChildren, hostsChildren, dcsChildren, invChildren>>
    ]_vars
C21_Witness ==
    /\ proc.frames[1].op = "hosts_create"
    /\ proc.frames[1].pc = "wait"
    /\ rHosts[proc.frames[1].arg] = UP

\* C22: interactive shutdown. A command that raises inside the loop is
\* logged and the loop goes on: only the exit command ends it. When the
\* loop has ended the next thing main does is the disconnect; saveconfig
\* runs after it, with no session handle and no children under the root,
\* and only when auto_save_on_exit is true.
C22_ShutdownOrder ==
    [][
        /\ (proc.pc = "interactive" /\ last' # last /\ last'.exc # None)
             => proc'.pc = "interactive" /\ proc'.logged = <<last'.exc>>
        /\ (proc.pc = "interactive" /\ proc'.pc # "interactive")
             => proc'.pc = "leaving" /\ last' = last
        /\ (proc.pc = "leaving" /\ proc' # proc)
             => /\ proc'.pc = "disconnected"
                /\ last'.op = "disconnect"
                /\ api' = None /\ rootChildren' = {}
        /\ proc.pc = "disconnected"
             => /\ api = None /\ rootChildren = {}
                /\ last.op = "disconnect"
                /\ proc' # proc
                     => /\ proc'.pc = "exited"
                        /\ last'.op = "saveconfig" <=> proc.autosave
        /\ (proc.pc # "interactive" /\ last' # last /\ last'.op = "saveconfig")
             => proc.pc = "disconnected"
    ]_vars
C22_Witness ==
    /\ proc.pc = "exited"
    /\ proc.ran = <<"disconnect", "saveconfig">>
    /\ proc.logged # <<>>
    /\ api = None /\ rootChildren = {}

====
